---- MODULE Spec2Model ----
EXTENDS Integers, Sequences, FiniteSets, TLC

(***************************************************************************)
(* A model of MagicAborter (src/index.ts).  Every aborter is a scope with  *)
(* its own flag (_aborted), its collected abortables (collections), its    *)
(* child array (children, a reference into heap) and its mitt emitter.     *)
(* abort() calls user callbacks (listeners, abortables' abort procedures,  *)
(* children's abort()), which may call back into an aborter, so a call of  *)
(* abort() is a frame on a call stack and runs one callback per step.      *)
(***************************************************************************)

\* ---- bounds ----
NScopes == 3
NOps == 3
NListeners == 3
MaxOps == 3        \* total number of collected abortables, all scopes together
MaxTreeOps == 2    \* the same, in the tree scenarios
MaxKids == 2       \* length of one child array
MaxLog == 60       \* events recorded during one top-level call
MaxCollects == 4   \* calls of collect() recorded between two calls of abort()
MaxHandlers == 4   \* length of one handler list
StackLimit == 5    \* frames of abort() the call stack holds

Scopes == 1..NScopes
Ops == 1..NOps
Listeners == 1..NListeners
EventType == {"abort", "aborted"}

VARIABLES
  _aborted,     \* [Scopes -> BOOLEAN]             private _aborted
  children,     \* [Scopes -> Scopes]              which array this.children refers to
  heap,         \* [Scopes -> Seq(Scopes)]         the child arrays, by identity
  collections,  \* [Scopes -> Seq(Ops)]            private collections
  emitter,      \* [Scopes -> [EventType -> Seq(Listeners)]]  mitt's handler lists
  abortFn,      \* [Ops -> Body]                   what an abortable's abort() does
  listenerFn,   \* [Listeners -> Body]             what a listener does
  stack,        \* Seq(Frame)                      the calls of abort() in progress
  log           \* Seq(Event)                      callbacks run by the current top-level call

vars == <<_aborted, children, heap, collections, emitter, abortFn, listenerFn, stack, log>>

\* ---- what a user callback does when it is invoked ----
Skip == [k |-> "skip", s |-> 0, x |-> 0]
DoCollect(s, o) == [k |-> "collect", s |-> s, x |-> o]
DoRemoveChild(p, c) == [k |-> "removeChild", s |-> p, x |-> c]
DoThrow == [k |-> "throw", s |-> 0, x |-> 0]

\* ---- JavaScript array operations ----
includes(seq, x) == \E i \in 1..Len(seq) : seq[i] = x

\* 0-based index of the first identity match, -1 when there is none
indexOf(seq, x) ==
  IF includes(seq, x)
    THEN (CHOOSE i \in 1..Len(seq) : seq[i] = x /\ \A j \in 1..(i - 1) : seq[j] # x) - 1
    ELSE -1

\* Array.prototype.splice(start, deleteCount): a negative start counts from the end
splice(seq, start, deleteCount) ==
  LET len == Len(seq)
      from == IF start < 0 THEN (IF len + start < 0 THEN 0 ELSE len + start)
                           ELSE (IF start > len THEN len ELSE start)
      cnt == IF deleteCount < 0 THEN 0
             ELSE IF deleteCount > len - from THEN len - from ELSE deleteCount
  IN  SubSeq(seq, 1, from) \o SubSeq(seq, from + cnt + 1, len)

\* ---- the object graph as one value: flags, collections, child arrays ----
Mem == [a |-> _aborted, c |-> collections, h |-> heap]

kids(M, s) == M.h[children[s]]

RECURSIVE aborted(_, _, _)
RECURSIVE every(_, _, _, _)
\* get aborted(): "T", "F", or "X" when the recursion exhausts the call stack
abortedNoChildren(M, s, fuel) == IF M.a[s] THEN "T" ELSE "F"
aborted(M, s, fuel) ==
  IF fuel = 0 THEN "X"
  ELSE IF ~M.a[s] THEN "F"
  ELSE every(M, kids(M, s), 1, fuel - 1)
everyFirst(M, arr, i, fuel) ==
  IF i > Len(arr) THEN "T" ELSE aborted(M, arr[1], fuel)
every(M, arr, i, fuel) ==
  IF i > Len(arr) THEN "T"
  ELSE LET r == aborted(M, arr[i], fuel)
       IN  IF r = "T" THEN every(M, arr, i + 1, fuel) ELSE r

\* collect(abortable)
collectNoIncludes(M, s, o) == [M EXCEPT !.c[s] = Append(@, o), !.a[s] = FALSE]
collectNoReset(M, s, o) ==
  [M EXCEPT !.c[s] = IF includes(@, o) THEN @ ELSE Append(@, o)]
collect(M, s, o) ==
  [M EXCEPT !.c[s] = IF includes(@, o) THEN @ ELSE Append(@, o),
            !.a[s] = FALSE]

\* addChildAborter(child)
addChildAborter(M, p, c) == [M EXCEPT !.h[children[p]] = Append(@, c)]

\* removeChildAborter(child)
removeChildAborter(M, p, c) ==
  [M EXCEPT !.h[children[p]] = splice(@, indexOf(@, c), 1)]

\* the effect of running a callback's body on the object graph
run(M, b) ==
  CASE b.k = "collect" -> collect(M, b.s, b.x)
    [] b.k = "removeChild" -> removeChildAborter(M, b.s, b.x)
    [] OTHER -> M

Store(M) ==
  /\ _aborted' = M.a
  /\ collections' = M.c
  /\ heap' = M.h

\* ---- the log ----
Ev(e, s, x, d) == [e |-> e, s |-> s, x |-> x, d |-> d]

\* the events of invoking a callback with body b from the frame at depth d
bodyEv(b, d) ==
  CASE b.k = "skip" -> <<>>
    [] OTHER -> <<Ev(b.k, b.s, b.x, d)>>

\* ---- the call stack ----
Quiet == stack = <<>>
Depth == Len(stack)
Top == stack[Depth]
NewFrame(s) ==
  [s |-> s, pc |-> "guard", pass |-> FALSE, snap |-> <<>>, i |-> 0, len |-> 0,
   base |-> Len(log), coll0 |-> [t \in Scopes |-> <<>>]]
SetTop(f) == stack' = [stack EXCEPT ![Depth] = f]
\* an exception nobody catches unwinds every frame of abort()
Unwind(name) ==
  /\ stack' = <<>>
  /\ log' = Append(log, Ev(name, Top.s, 0, Depth))
Room == Len(log) + 2 <= MaxLog

\* the events of the log that the frame at depth n has added so far
Seg(n) == (stack[n].base + 1)..Len(log)
\* the abortables whose abort() the frame at depth n has called, in call order
RECURSIVE opsFrom(_, _, _)
opsFrom(n, s, j) ==
  IF j > Len(log) THEN <<>>
  ELSE IF log[j].e = "op" /\ log[j].d = n /\ log[j].s = s
         THEN <<log[j].x>> \o opsFrom(n, s, j + 1)
         ELSE opsFrom(n, s, j + 1)
opsDone(n) == opsFrom(n, stack[n].s, stack[n].base + 1)

\* ---- abort(), one step at a time ----
\* mitt's emit: (all.get(type) || []).slice().map((handler) => handler(evt))
sliceReversed(seq) == [i \in 1..Len(seq) |-> seq[Len(seq) + 1 - i]]
slice(seq) == seq

\* line 116: this.aborted = true (the setter)
setAbortedNot(M, s) == M
setAbortedDetach(M, s) == [M EXCEPT !.a[s] = TRUE, !.h[children[s]] = <<>>]
setAborted(M, s) == [M EXCEPT !.a[s] = TRUE]

\* the statements of abort() after the guard, in order: emit("abort"), the
\* while loop, children.forEach, aborted = true with emit("aborted"), return
thenChildrenFirst(pc) ==
  CASE pc = "abort" -> "children"
    [] pc = "children" -> "drain"
    [] pc = "drain" -> "aborted"
    [] OTHER -> "return"
thenDo(pc) ==
  CASE pc = "abort" -> "drain"
    [] pc = "drain" -> "children"
    [] pc = "children" -> "aborted"
    [] OTHER -> "return"

\* the frame as it begins statement pc: emit copies the handler list, forEach
\* reads the length of the child array once
Enter(f, pc, M) ==
  [f EXCEPT !.pc = pc,
            !.i = IF pc \in EventType THEN 1 ELSE 0,
            !.snap = IF pc \in EventType THEN slice(emitter[f.s][pc]) ELSE <<>>,
            !.len = IF pc = "children" THEN Len(kids(M, f.s)) ELSE 0]

\* the innermost call goes on to its next statement
Goto ==
  LET to == thenDo(Top.pc) IN
  /\ SetTop(Enter(Top, to, Mem))
  /\ Store(IF to = "aborted" THEN setAborted(Mem, Top.s) ELSE Mem)
  /\ UNCHANGED log

\* line 106: if (this.aborted) return;
guardNever(M, s, fuel) == IF aborted(M, s, fuel) = "X" THEN "X" ELSE "F"
guardResult(M, s, fuel) == aborted(M, s, fuel)
AbortGuard ==
  /\ ~Quiet /\ Top.pc = "guard" /\ Room
  /\ LET s == Top.s
         r == guardResult(Mem, s, StackLimit - Depth + 1)
     IN  /\ CASE r = "T" ->
                   /\ SetTop([Top EXCEPT !.pc = "return"])
                   /\ log' = Append(log, Ev("call", s, 0, Depth))
              [] r = "F" ->
                   /\ SetTop([Enter(Top, "abort", Mem) EXCEPT !.pass = TRUE,
                                                            !.coll0 = collections])
                   /\ log' = Append(log, Ev("call", s, 1, Depth))
              [] OTHER -> Unwind("RangeError")
  /\ UNCHANGED <<_aborted, children, heap, collections, emitter, abortFn, listenerFn>>

\* lines 108 and 117: emitter.emit(type) runs a copy of the handler list in order
Emit ==
  /\ ~Quiet /\ Top.pc \in EventType /\ Room
  /\ IF Top.i <= Len(Top.snap)
       THEN LET l == Top.snap[Top.i]
                b == listenerFn[l]
            IN  /\ Store(run(Mem, b))
                /\ IF b.k = "throw"
                     THEN /\ stack' = <<>>
                          /\ log' = log \o <<Ev(Top.pc, Top.s, l, Depth),
                                             Ev("Error", Top.s, 0, Depth)>>
                     ELSE /\ SetTop([Top EXCEPT !.i = @ + 1])
                          /\ log' = log \o <<Ev(Top.pc, Top.s, l, Depth)>> \o bodyEv(b, Depth)
       ELSE Goto
  /\ UNCHANGED <<children, emitter, abortFn, listenerFn>>

\* lines 110-112: while (this.collections.length) this.collections.shift()!.abort();
shiftAll(seq) == <<>>
shiftAfterCall(seq) == seq
shift(seq) == Tail(seq)
\* the loop condition, read from the live array before every iteration
drainMoreCounted(M, n) ==
  Len(M.c[stack[n].s]) > 0 /\ Len(opsDone(n)) < Len(stack[n].coll0[stack[n].s])
drainMore(M, n) == Len(M.c[stack[n].s]) > 0
Drain ==
  /\ ~Quiet /\ Top.pc = "drain" /\ Room
  /\ LET s == Top.s IN
     IF drainMore(Mem, Depth)
       THEN LET o == Head(collections[s])
                b == abortFn[o]
                M1 == [Mem EXCEPT !.c[s] = shift(@)]
            IN  /\ Store(run(M1, b))
                /\ IF b.k = "throw"
                     THEN /\ stack' = <<>>
                          /\ log' = log \o <<Ev("op", s, o, Depth),
                                             Ev("Error", s, 0, Depth)>>
                     ELSE /\ UNCHANGED stack
                          /\ log' = log \o <<Ev("op", s, o, Depth)>> \o bodyEv(b, Depth)
       ELSE Goto
  /\ UNCHANGED <<children, emitter, abortFn, listenerFn>>

\* line 114: this.children.forEach((i) => i.abort()): the length is read once, an
\* index the array no longer has is skipped
ForEach ==
  /\ ~Quiet /\ Top.pc = "children" /\ Room
  /\ LET s == Top.s
         arr == kids(Mem, s)
     IN  IF Top.i < Top.len
           THEN IF Top.i < Len(arr)
                  THEN IF Depth >= StackLimit
                         THEN Unwind("RangeError") /\ UNCHANGED <<_aborted, heap, collections>>
                         ELSE /\ stack' = Append([stack EXCEPT ![Depth].i = @ + 1],
                                                 NewFrame(arr[Top.i + 1]))
                              /\ UNCHANGED <<_aborted, heap, collections, log>>
                  ELSE /\ SetTop([Top EXCEPT !.i = @ + 1])
                       /\ UNCHANGED <<_aborted, heap, collections, log>>
           ELSE Goto
  /\ UNCHANGED <<children, emitter, abortFn, listenerFn>>

\* abort() returns to its caller: the parent's forEach, or the user
Return ==
  /\ ~Quiet /\ Top.pc = "return"
  /\ stack' = SubSeq(stack, 1, Depth - 1)
  /\ log' = IF Depth = 1 THEN <<>>
            ELSE Append(log, Ev("ret", Top.s, IF Top.pass THEN 1 ELSE 0, Depth))
  /\ UNCHANGED <<_aborted, children, heap, collections, emitter, abortFn, listenerFn>>

\* ---- calls from outside, made while no abort() is running ----
TotalOps(c) ==
  LET RECURSIVE sum(_)
      sum(n) == IF n = 0 THEN 0 ELSE Len(c[n]) + sum(n - 1)
  IN  sum(NScopes)

CallAbort(s) ==
  /\ Quiet
  /\ stack' = <<NewFrame(s)>>
  /\ UNCHANGED log
  /\ UNCHANGED <<_aborted, children, heap, collections, emitter, abortFn, listenerFn>>

CallCollect(s, o) ==
  /\ Quiet
  /\ includes(collections[s], o) \/ TotalOps(collections) < MaxOps
  /\ Store(collect(Mem, s, o))
  /\ log' = IF aborted(Mem, s, StackLimit) = "T" THEN <<Ev("rearm", s, o, 0)>> ELSE <<>>
  /\ UNCHANGED <<children, emitter, abortFn, listenerFn, stack>>

CallAddChild(p, c) ==
  /\ Quiet
  /\ Len(kids(Mem, p)) < MaxKids
  /\ Store(addChildAborter(Mem, p, c))
  /\ log' = <<>>
  /\ UNCHANGED <<children, emitter, abortFn, listenerFn, stack>>

CallRemoveChild(p, c) ==
  /\ Quiet
  /\ Store(removeChildAborter(Mem, p, c))
  /\ log' = <<>>
  /\ UNCHANGED <<children, emitter, abortFn, listenerFn, stack>>

\* ---- the programs checked ----
\* The aborters are made by new MagicAborter(options); options.children becomes
\* this.children.  Every aborter has the listeners 1 and 2 on "abort" and the
\* listener 3 on "aborted".
Setup(configs, bodies) ==
  /\ _aborted = [s \in Scopes |-> FALSE]
  /\ children = [s \in Scopes |-> s]
  /\ heap \in configs
  /\ collections = [s \in Scopes |-> <<>>]
  /\ emitter = [s \in Scopes |-> [t \in EventType |-> IF t = "abort" THEN <<1, 2>> ELSE <<3>>]]
  /\ \E b \in bodies : abortFn = b.ops /\ listenerFn = b.lis
  /\ stack = <<>>
  /\ log = <<>>

PlainBodies == [ops |-> [o \in Ops |-> Skip], lis |-> [l \in Listeners |-> Skip]]
OpBody(o, b) == [PlainBodies EXCEPT !.ops[o] = b]
ListenerBody(l, b) == [PlainBodies EXCEPT !.lis[l] = b]
Steps == AbortGuard \/ Emit \/ Drain \/ ForEach \/ Return

\* Trees of aborters.  At most one callback calls back into an aborter: the
\* abort() of abortable 2, the "abort" listener 1 or the "aborted" listener 3
\* collects abortable 1 on aborter 1.
Root == 1
ConfigChildren ==
  { [s \in Scopes |-> <<>>],
    [s \in Scopes |-> IF s = 1 THEN <<2>> ELSE <<>>],
    [s \in Scopes |-> IF s = 1 THEN <<2, 3>> ELSE <<>>],
    [s \in Scopes |-> IF s = 1 THEN <<2>> ELSE IF s = 2 THEN <<3>> ELSE <<>>] }
TreeBodies ==
  { PlainBodies, OpBody(2, DoCollect(Root, 1)),
    ListenerBody(1, DoCollect(Root, 1)), ListenerBody(3, DoCollect(Root, 1)) }

Init == Setup(ConfigChildren, TreeBodies)

Next ==
  \/ \E s \in Scopes : CallAbort(s)
  \/ \E s \in Scopes, o \in Ops : TotalOps(collections) < MaxTreeOps /\ CallCollect(s, o)
  \/ \E p \in Scopes, c \in Scopes : p < c /\ CallAddChild(p, c)
  \/ \E p \in Scopes, c \in Scopes : CallRemoveChild(p, c)
  \/ Steps

Spec == Init /\ [][Next]_vars

\* One aborter without children, used again and again.  At most one callback
\* calls back: the abort() of abortable 2 collects abortable 1 or 3, or a
\* listener collects abortable 1.
FlatBodies ==
  { PlainBodies, OpBody(2, DoCollect(Root, 1)), OpBody(2, DoCollect(Root, 3)),
    ListenerBody(1, DoCollect(Root, 1)), ListenerBody(3, DoCollect(Root, 1)) }

InitFlat == Setup({[s \in Scopes |-> <<>>]}, FlatBodies)

NextFlat ==
  \/ CallAbort(Root)
  \/ \E o \in Ops : CallCollect(Root, o)
  \/ Steps

SpecFlat == InitFlat /\ [][NextFlat]_vars

\* ======================= vocabulary of the properties =======================
Frames == 1..Len(stack)
Range(seq) == {seq[i] : i \in 1..Len(seq)}
ReentryEvents == {"collect", "removeChild", "Error", "RangeError"}
\* no callback run by the frame at depth n (or below it) called back into an aborter
Clean(n) == \A j \in Seg(n) : log[j].e \notin ReentryEvents
\* every abortable and every listener of the program just returns
Plain ==
  /\ \A o \in Ops : abortFn[o] = Skip
  /\ \A l \in Listeners : listenerFn[l] = Skip
Fuel == StackLimit
isCanceled(s) == aborted(Mem, s, Fuel) = "T"

\* the scopes reachable from s through child arrays, s included
Desc(s) ==
  LET RECURSIVE R(_, _)
      R(S, n) == IF n = 0 THEN S
                 ELSE R(S \cup UNION {Range(kids(Mem, t)) : t \in S}, n - 1)
  IN  R({s}, NScopes)

\* what the frame at depth n did itself, in order: its listeners, its abortables,
\* and the calls and returns of abort() on its children
Direct(n) ==
  LET own(ev) == \/ ev.d = n /\ ev.e \in {"abort", "op", "aborted"}
                 \/ ev.d = n + 1 /\ ev.e \in {"call", "ret"}
  IN  SelectSeq(SubSeq(log, stack[n].base + 1, Len(log)), own)
Phase(ev) ==
  CASE ev.e = "abort" -> 1
    [] ev.e = "op" -> 2
    [] ev.e \in {"call", "ret"} -> 3
    [] OTHER -> 4
OfKind(seq, kinds) == LET is(ev) == ev.e \in kinds IN SelectSeq(seq, is)
Xs(seq) == [i \in 1..Len(seq) |-> seq[i].x]
Ss(seq) == [i \in 1..Len(seq) |-> seq[i].s]
IsPrefix(a, b) == Len(a) <= Len(b) /\ a = SubSeq(b, 1, Len(a))

\* ============================== the claims ==============================

\* C1: a pass whose callbacks just return calls abort() on the collected
\* abortables in the order they were collected, each exactly once, removing each
\* from collections as it is called, and leaves collections empty.
C1_FifoDrain ==
  \A n \in Frames :
    LET f == stack[n] IN
    (f.pass /\ Clean(n)) =>
      /\ opsDone(n) \o collections[f.s] = f.coll0[f.s]
      /\ \A i, j \in 1..Len(opsDone(n)) : i # j => opsDone(n)[i] # opsDone(n)[j]
      /\ f.pc \in {"children", "aborted", "return"} =>
           /\ collections[f.s] = <<>>
           /\ opsDone(n) = f.coll0[f.s]

C1_Witness ==
  /\ Depth = 1 /\ Top.pc = "return" /\ Top.pass /\ Clean(1)
  /\ kids(Mem, Top.s) = <<>>
  /\ Len(Top.coll0[Top.s]) = 3
  /\ opsDone(1) = Top.coll0[Top.s]
  /\ opsDone(1) # <<1, 2, 3>>

\* C2: abort() on an aborter whose aborted reads true changes nothing and calls
\* nothing; and when a top-level abort() whose callbacks just return comes back,
\* aborted reads true, collections is empty and every listener has run once, so
\* a second abort() is such a no-op.
C2_GuardStep ==
  (~Quiet /\ Top.pc = "guard" /\ aborted(Mem, Top.s, StackLimit - Depth + 1) = "T")
    => /\ UNCHANGED <<_aborted, collections, children, heap, emitter>>
       /\ stack' = [stack EXCEPT ![Depth] = [Top EXCEPT !.pc = "return"]]
       /\ log' = Append(log, Ev("call", Top.s, 0, Depth))
C2_After ==
  /\ \A n \in Frames :
       ~stack[n].pass =>
         /\ n = Depth
         /\ stack[n].pc \in {"guard", "return"}
         /\ stack[n].pc = "return" =>
              /\ Len(log) = stack[n].base + 1
              /\ log[Len(log)] = Ev("call", stack[n].s, 0, n)
  /\ (Depth = 1 /\ Top.pc = "return" /\ Top.pass /\ Clean(1)) =>
       /\ isCanceled(Top.s)
       /\ collections[Top.s] = <<>>
       /\ Xs(OfKind(Direct(1), {"abort"})) = emitter[Top.s]["abort"]
       /\ Xs(OfKind(Direct(1), {"aborted"})) = emitter[Top.s]["aborted"]
C2_Idempotent == [][C2_GuardStep]_vars /\ []C2_After

C2_Witness ==
  /\ Depth = 1 /\ Top.pc = "return" /\ ~Top.pass
  /\ isCanceled(Top.s)
  /\ kids(Mem, Top.s) # <<>>
  /\ emitter[Top.s]["abort"] # <<>>

\* C3: collect(op) on an aborter whose aborted reads true resets _aborted, so
\* aborted reads false; the abort() that follows runs a pass that calls
\* op.abort() and every other collected abort(), and aborted reads true again.
C3_CollectStep ==
  \A s \in Scopes, o \in Ops :
    (Quiet /\ stack' = <<>> /\ log' = <<Ev("rearm", s, o, 0)>>) =>
      /\ isCanceled(s)
      /\ ~_aborted'[s]
      /\ aborted([a |-> _aborted', c |-> collections', h |-> heap'], s, Fuel) = "F"
      /\ includes(collections'[s], o)
C3_Round ==
  \A s \in Scopes, o \in Ops :
    (log # <<>> /\ log[1] = Ev("rearm", s, o, 0)) =>
      /\ Quiet => (~isCanceled(s) /\ includes(collections[s], o))
      /\ (Depth = 1 /\ Top.s = s /\ Top.pc # "guard") => Top.pass
      /\ (Depth = 1 /\ Top.s = s /\ Top.pc = "return" /\ Clean(1)) =>
           /\ includes(opsDone(1), o)
           /\ opsDone(1) = Top.coll0[s]
           /\ collections[s] = <<>>
           /\ isCanceled(s)
C3_Rearm == [][C3_CollectStep]_vars /\ []C3_Round

C3_Witness ==
  /\ Depth = 1 /\ Top.pc = "return" /\ Clean(1)
  /\ log[1] = Ev("rearm", Top.s, 1, 0)
  /\ includes(opsDone(1), 1)
  /\ isCanceled(Top.s)

\* C4: in a program whose callbacks just return, when abort() on P has run its
\* pass and is about to return, every abortable that was collected on P or on a
\* scope below P when the pass began has had its abort() called, and aborted
\* reads true on P and on every scope below it.
C4_Propagation ==
  \A n \in Frames :
    LET f == stack[n] IN
    (Plain /\ f.pass /\ f.pc = "return") =>
      \A d \in Desc(f.s) :
        /\ isCanceled(d)
        /\ collections[d] = <<>>
        /\ \A o \in Range(f.coll0[d]) :
             \E j \in Seg(n) : log[j].e = "op" /\ log[j].s = d /\ log[j].x = o

C4_Witness ==
  /\ Plain /\ Depth = 1 /\ Top.pc = "return" /\ Top.pass /\ Top.s = 1
  /\ kids(Mem, 1) = <<2>> /\ kids(Mem, 2) = <<3>>
  /\ Top.coll0[3] # <<>> /\ Top.coll0[1] # <<>>
  /\ isCanceled(1) /\ isCanceled(2) /\ isCanceled(3)

\* C5: aborted reads true exactly when _aborted is set on the scope and on
\* every scope reachable from it through child arrays; it is never true while
\* the scope's own _aborted is false.
C5_Derived ==
  \A s \in Scopes :
    /\ aborted(Mem, s, Fuel) \in {"T", "F"}
    /\ isCanceled(s) <=> (\A d \in Desc(s) : _aborted[d])
    /\ isCanceled(s) <=> (_aborted[s] /\ \A i \in 1..Len(kids(Mem, s)) : isCanceled(kids(Mem, s)[i]))
    /\ ~_aborted[s] => ~isCanceled(s)

C5_Witness ==
  \E s \in Scopes :
    /\ _aborted[s] /\ ~isCanceled(s)
    /\ Len(kids(Mem, s)) = 2
    /\ isCanceled(kids(Mem, s)[1]) /\ ~_aborted[kids(Mem, s)[2]]

\* C6: a parent whose own _aborted is true reads aborted false while one of
\* its children does not read aborted; when a top-level abort() on that child
\* is about to return and the other children read aborted, the parent reads
\* aborted true although nothing was called on the parent.
C6_Composite ==
  \A p \in Scopes :
    /\ (\E i \in 1..Len(kids(Mem, p)) : ~isCanceled(kids(Mem, p)[i])) => ~isCanceled(p)
    /\ ( /\ Depth = 1 /\ Top.pc = "return" /\ Top.pass /\ Top.s # p
         /\ includes(kids(Mem, p), Top.s)
         /\ _aborted[p]
         /\ \A i \in 1..Len(kids(Mem, p)) :
              kids(Mem, p)[i] # Top.s => isCanceled(kids(Mem, p)[i]) )
       => isCanceled(p)

C6_Witness ==
  /\ Depth = 1 /\ Top.pc = "return" /\ Top.pass /\ Top.s = 3
  /\ kids(Mem, 1) = <<2, 3>>
  /\ _aborted[1] /\ isCanceled(2) /\ isCanceled(1)
  /\ Top.coll0[3] # <<>>

\* C7: within one pass the "abort" listeners run first, then the abortables,
\* then abort() on the children in the order of the child array, each returning
\* before the next is called, and the "aborted" listeners run after the last
\* child has returned; listeners of one kind run in the order they were added.
C7_PassOrder ==
  \A n \in Frames :
    LET f == stack[n]
        D == Direct(n)
        before == Xs(OfKind(D, {"abort"}))
        after == Xs(OfKind(D, {"aborted"}))
        calls == OfKind(D, {"call", "ret"})
        called == Ss(OfKind(D, {"call"}))
    IN  f.pass =>
          /\ \A i, j \in 1..Len(D) : i < j => Phase(D[i]) <= Phase(D[j])
          /\ IsPrefix(before, emitter[f.s]["abort"])
          /\ f.pc # "abort" => before = emitter[f.s]["abort"]
          /\ IsPrefix(after, emitter[f.s]["aborted"])
          /\ f.pc = "return" => after = emitter[f.s]["aborted"]
          /\ \A k \in 1..Len(calls) :
               IF k % 2 = 1 THEN calls[k].e = "call"
               ELSE calls[k].e = "ret" /\ calls[k].s = calls[k - 1].s
          /\ IsPrefix(called, kids(Mem, f.s))
          /\ f.pc \in {"aborted", "return"} =>
               /\ called = kids(Mem, f.s)
               /\ Len(calls) = 2 * Len(called)

C7_Witness ==
  /\ Depth = 1 /\ Top.pc = "return" /\ Top.pass
  /\ Len(kids(Mem, Top.s)) = 2
  /\ Len(Top.coll0[Top.s]) >= 2
  /\ Len(Direct(1)) = 3 + Len(Top.coll0[Top.s]) + 4
\* C8: when a pass of abort() is about to return, collections is empty, every
\* "abort" and every "aborted" listener has run exactly once in this pass, and
\* aborted reads true unless something was collected on a scope below this one
\* during the pass; callbacks that collect on this scope are not excepted.
C8_PassGuarantee ==
  \A n \in Frames :
    LET f == stack[n] IN
    (f.pass /\ f.pc = "return") =>
      /\ collections[f.s] = <<>>
      /\ Xs(OfKind(Direct(n), {"abort"})) = emitter[f.s]["abort"]
      /\ Xs(OfKind(Direct(n), {"aborted"})) = emitter[f.s]["aborted"]
      /\ (\A j \in Seg(n) : log[j].e = "collect" => log[j].s \notin Desc(f.s) \ {f.s})
           => isCanceled(f.s)

\* C9: removeChildAborter(child) with a child that is not in the array leaves
\* the array as it is; with a child that is in the array it removes the first
\* identity match and nothing else.
RemoveFirst(seq, x) ==
  IF ~includes(seq, x) THEN seq
  ELSE LET i == CHOOSE k \in 1..Len(seq) : seq[k] = x /\ \A m \in 1..(k - 1) : seq[m] # x
       IN  SubSeq(seq, 1, i - 1) \o SubSeq(seq, i + 1, Len(seq))
C9_RemoveStep ==
  \A p \in Scopes, c \in Scopes :
    CallRemoveChild(p, c) =>
      /\ heap'[children[p]] = RemoveFirst(heap[children[p]], c)
      /\ \A a \in Scopes : a # children[p] => heap'[a] = heap[a]
C9_RemoveChild == [][C9_RemoveStep]_vars

\* C10: an abortable collected on S by one of S's "abort" listeners, or by the
\* abort() of an abortable that S's loop is calling, is called by that same
\* pass, after the abortables that were collected when the pass began, and
\* nothing is left in collections when the loop ends.
C10_SamePass ==
  \A n \in Frames :
    LET f == stack[n]
        s == f.s
        called(o, k) == k \in Seg(n) /\ log[k] = Ev("op", s, o, n)
    IN  f.pass =>
          /\ ((f.pc = "children" /\ f.i = 0 /\ n = Depth) => collections[s] = <<>>)
          /\ \A j \in Seg(n) :
               ( /\ log[j] = Ev("collect", s, log[j].x, n)
                 /\ log[j - 1].d = n /\ log[j - 1].s = s
                 /\ log[j - 1].e \in {"abort", "op"} )
               => LET x == log[j].x IN
                  /\ (f.pc = "drain" =>
                        (\/ includes(collections[s], x)
                         \/ \E k \in (j + 1)..Len(log) : called(x, k)))
                  /\ (f.pc \in {"children", "aborted", "return"} =>
                        (\E k \in (j + 1)..Len(log) :
                           /\ called(x, k)
                           /\ (~includes(f.coll0[s], x) =>
                                 \A o \in Range(f.coll0[s]) :
                                   \E m \in 1..(k - 1) : called(o, m))))

C10_Witness ==
  /\ Depth = 1 /\ Top.pc = "return" /\ Top.pass
  /\ \E j \in Seg(1) :
       /\ log[j] = Ev("collect", Top.s, log[j].x, 1)
       /\ log[j - 1] = Ev("op", Top.s, log[j - 1].x, 1)
       /\ ~includes(Top.coll0[Top.s], log[j].x)
       /\ log[Len(log) - 1] = Ev("op", Top.s, log[j].x, 1)
       /\ Len(Top.coll0[Top.s]) = 2

\* ---- callbacks that throw ----
\* One aborter, alone or with one child.  One callback throws: the abort() of
\* abortable 2, an "abort" listener or the "aborted" listener.
ThrowConfigs ==
  { [s \in Scopes |-> <<>>],
    [s \in Scopes |-> IF s = 1 THEN <<2>> ELSE <<>>] }
ThrowBodies ==
  { OpBody(2, DoThrow), ListenerBody(1, DoThrow), ListenerBody(2, DoThrow),
    ListenerBody(3, DoThrow) }

InitThrow == Setup(ThrowConfigs, ThrowBodies)

\* the caller of abort() has caught the exception and goes on
Caught ==
  /\ Quiet /\ log # <<>> /\ log[Len(log)].e \in {"Error", "RangeError"}
  /\ log' = <<>>
  /\ UNCHANGED <<_aborted, children, heap, collections, emitter, abortFn, listenerFn, stack>>

NextThrow ==
  \/ Caught
  \/ \E s \in 1..2 : CallAbort(s) /\ (IF log = <<>> THEN TRUE ELSE log[Len(log)].e = "rearm")
  \/ \E s \in 1..2, o \in Ops : CallCollect(s, o)
  \/ Steps

SpecThrow == InitThrow /\ [][NextThrow]_vars

\* the step in which a callback of the innermost abort() throws
Throws ==
  /\ ~Quiet
  /\ Len(log') = Len(log) + 2
  /\ log'[Len(log')] = Ev("Error", Top.s, 0, Depth)

\* C11 (amended): when a listener or an abortable's abort() throws during a
\* pass, the exception leaves every abort() in progress: nothing more is called
\* by them, no _aborted changes in that step, and _aborted only ever becomes
\* true by line 116, so a pass that threw in an "abort" listener, in the loop or
\* below a child has not set it, while a pass whose "aborted" listener throws
\* has set it before.  The abortable that threw stays removed from collections,
\* those before it were removed, those after it stay collected.
C11_ThrowStep ==
  /\ Throws =>
       /\ stack' = <<>>
       /\ _aborted' = _aborted /\ heap' = heap
       /\ Top.pc \in {"abort", "drain", "aborted"}
       /\ \A n \in 1..(Depth - 1) : stack[n].pc = "children"
       /\ Top.pc = "aborted" => (_aborted[Top.s] /\ collections' = collections)
       /\ Top.pc = "abort" => collections' = collections
       /\ Top.pc = "drain" =>
            /\ collections' = [collections EXCEPT ![Top.s] = Tail(@)]
            /\ log'[Len(log) + 1] = Ev("op", Top.s, Head(collections[Top.s]), Depth)
            /\ opsDone(Depth) \o collections[Top.s] = Top.coll0[Top.s]
  /\ \A s \in Scopes :
       (~_aborted[s] /\ _aborted'[s]) =>
         /\ ~Quiet /\ Top.s = s /\ Top.pc = "children"
         /\ stack' = [stack EXCEPT ![Depth] = Enter(Top, "aborted", Mem)]
C11_After ==
  \A j \in 1..Len(log) : log[j].e = "Error" => (j = Len(log) /\ Quiet)
C11_Throw == [][C11_ThrowStep]_vars /\ []C11_After

\* an abortable threw below a child: the parent's pass ends without "aborted"
\* listeners and without _aborted, an abortable behind the thrower stays
C11_Witness ==
  /\ Quiet /\ Len(log) >= 2
  /\ log[Len(log)] = Ev("Error", 2, 0, 2)
  /\ log[Len(log) - 1] = Ev("op", 2, 2, 2)
  /\ collections[2] # <<>>
  /\ \E j \in 1..Len(log) : log[j].e = "op" /\ log[j].s = 2 /\ log[j].x # 2
  /\ ~_aborted[1] /\ ~_aborted[2]

\* C11: whenever a listener or an abortable's abort() throws during a pass, that
\* pass has not set _aborted (it had not reached line 116).
C11_FlagNotSet ==
  [][Throws => \A n \in Frames : stack[n].pass => stack[n].pc \in {"abort", "drain", "children"}]_vars

\* ---- collecting the same abortable again ----
\* collect() called from outside, the call recorded until the next abort() returns
CollectLogged(s, o) ==
  /\ Quiet
  /\ Len(log) < MaxCollects
  /\ Store(collect(Mem, s, o))
  /\ log' = Append(log, Ev("collect", s, o, 0))
  /\ UNCHANGED <<children, emitter, abortFn, listenerFn, stack>>

\* one aborter without children whose callbacks just return
InitDup == Setup({[s \in Scopes |-> <<>>]}, {PlainBodies})

NextDup ==
  \/ CallAbort(Root)
  \/ \E o \in Ops : CollectLogged(Root, o)
  \/ Steps

SpecDup == InitDup /\ [][NextDup]_vars

\* how many of the events lo..hi of the log are ev
RECURSIVE Count(_, _, _)
Count(ev, lo, hi) ==
  IF lo > hi THEN 0 ELSE (IF log[lo] = ev THEN 1 ELSE 0) + Count(ev, lo + 1, hi)

\* C12: collect(op) with an op that is already in collections leaves
\* collections as it is, so collections never holds an abortable twice, and a
\* pass calls abort() exactly once on an abortable however often it was
\* collected before the pass.
C12_DupStep ==
  \A s \in Scopes, o \in Ops :
    (Quiet /\ log' = Append(log, Ev("collect", s, o, 0))) =>
      /\ stack' = <<>>
      /\ collections'[s] = IF includes(collections[s], o) THEN collections[s]
                            ELSE Append(collections[s], o)
      /\ \A t \in Scopes \ {s} : collections'[t] = collections[t]
C12_Once ==
  /\ \A s \in Scopes : \A i, j \in 1..Len(collections[s]) :
       i # j => collections[s][i] # collections[s][j]
  /\ (Depth = 1 /\ Top.pass /\ Top.pc \in {"children", "aborted", "return"}) =>
       \A o \in Ops :
         Count(Ev("collect", Top.s, o, 0), 1, Top.base) >= 1 =>
           Count(Ev("op", Top.s, o, 1), Top.base + 1, Len(log)) = 1
C12_Duplicate == [][C12_DupStep]_vars /\ []C12_Once

\* abortable 1 was collected three times and abortable 2 once; the pass has
\* called each once
C12_Witness ==
  /\ Depth = 1 /\ Top.pc = "return" /\ Top.pass
  /\ Count(Ev("collect", Top.s, 1, 0), 1, Top.base) = 3
  /\ Count(Ev("collect", Top.s, 2, 0), 1, Top.base) = 1
  /\ Count(Ev("op", Top.s, 1, 1), Top.base + 1, Len(log)) = 1
  /\ opsDone(1) = Top.coll0[Top.s]

\* C13: no step of abort() changes a child array or a handler list, and in a
\* program whose callbacks just return a step changes _aborted and collections
\* of the aborter that runs it only; so the pass that follows collect() on an
\* aborter that read aborted runs every listener once again and calls abort()
\* on every child in the array again.
C13_FrameStep ==
  ~Quiet =>
    /\ UNCHANGED <<children, heap, emitter>>
    /\ Plain => \A s \in Scopes \ {Top.s} :
                  _aborted'[s] = _aborted[s] /\ collections'[s] = collections[s]
C13_Again ==
  \A o \in Ops :
    ( /\ Depth = 1 /\ Top.pc = "return" /\ Clean(1)
      /\ log[1] = Ev("rearm", Top.s, o, 0) ) =>
      /\ Top.pass
      /\ Xs(OfKind(Direct(1), {"abort"})) = emitter[Top.s]["abort"]
      /\ Xs(OfKind(Direct(1), {"aborted"})) = emitter[Top.s]["aborted"]
      /\ Ss(OfKind(Direct(1), {"call"})) = kids(Mem, Top.s)
      /\ Ss(OfKind(Direct(1), {"ret"})) = kids(Mem, Top.s)
C13_PassFrame == [][C13_FrameStep]_vars /\ []C13_Again

\* the second pass on an aborter with two children, about to return
C13_Witness ==
  /\ Depth = 1 /\ Top.pc = "return" /\ Top.pass /\ Clean(1)
  /\ log[1].e = "rearm" /\ log[1].s = Top.s
  /\ Len(kids(Mem, Top.s)) = 2
  /\ Len(OfKind(Direct(1), {"call"})) = 2
  /\ Len(OfKind(Direct(1), {"abort"})) = 2

\* ---- aborters made from one options.children array ----
\* line 67 keeps the array it is given: const kids = [...];
\* new MagicAborter({children: kids}) twice makes the aborters 1 and 2 refer to
\* one array; or each aborter is made with an array of its own.
InitShare ==
  /\ _aborted = [s \in Scopes |-> FALSE]
  /\ children \in { [s \in Scopes |-> s], [s \in Scopes |-> IF s = 2 THEN 1 ELSE s] }
  /\ heap \in { [s \in Scopes |-> <<>>], [s \in Scopes |-> IF s = 1 THEN <<3>> ELSE <<>>] }
  /\ collections = [s \in Scopes |-> <<>>]
  /\ emitter = [s \in Scopes |-> [t \in EventType |-> IF t = "abort" THEN <<1, 2>> ELSE <<3>>]]
  /\ abortFn = PlainBodies.ops /\ listenerFn = PlainBodies.lis
  /\ stack = <<>>
  /\ log = <<>>

NextShare ==
  \/ \E s \in Scopes : CallAbort(s)
  \/ \E s \in Scopes, o \in 1..2 : TotalOps(collections) < MaxTreeOps /\ CallCollect(s, o)
  \/ \E p \in 1..2 : CallAddChild(p, 3)
  \/ \E p \in 1..2, c \in Scopes : CallRemoveChild(p, c)
  \/ Steps

SpecShare == InitShare /\ [][NextShare]_vars

\* C14: addChildAborter and removeChildAborter on an aborter change the
\* children of that aborter only; the children of every other aborter stay as
\* they are, also when two aborters were made from one options.children array.
C14_OwnStep ==
  \A p \in Scopes, c \in Scopes :
    (CallAddChild(p, c) \/ CallRemoveChild(p, c)) =>
      \A b \in Scopes \ {p} : heap'[children'[b]] = heap[children[b]]
C14_OwnChildren == [][C14_OwnStep]_vars

\* ---- assigning to the aborted property ----
\* lines 81-83: set aborted(value) { this._aborted = value; } is a public member
setter(M, s, value) == [M EXCEPT !.a[s] = value]

CallSetAborted(s, value) ==
  /\ Quiet
  /\ Store(setter(Mem, s, value))
  /\ log' = <<>>
  /\ UNCHANGED <<children, emitter, abortFn, listenerFn, stack>>

InitSetter == Setup(ThrowConfigs, {PlainBodies})

NextSetter ==
  \/ \E s \in 1..2 : CallAbort(s)
  \/ \E s \in 1..2, o \in 1..2 : CallCollect(s, o)
  \/ \E s \in 1..2, value \in BOOLEAN : CallSetAborted(s, value)
  \/ Steps

SpecSetter == InitSetter /\ [][NextSetter]_vars

\* C15: _aborted of an aborter becomes true only by line 116 of a pass on that
\* aborter, when its collections are empty and abort() has returned on each of
\* its children; no other call of the public interface, assigning to the
\* aborted property included, makes it true.
C15_RiseStep ==
  \A s \in Scopes :
    (~_aborted[s] /\ _aborted'[s]) =>
      /\ ~Quiet /\ Top.s = s /\ Top.pass
      /\ Top.pc = "children" /\ Top.i >= Top.len
      /\ collections[s] = <<>>
      /\ Ss(OfKind(Direct(Depth), {"ret"})) = kids(Mem, s)
      /\ stack' = [stack EXCEPT ![Depth] = Enter(Top, "aborted", Mem)]
C15_OnlyStep5 == [][C15_RiseStep]_vars

\* ---- adding listeners ----
\* lines 126-128: on(event, listener) hands the listener to the emitter, which
\* appends it to the handler list of the event
onIfAbsent(E, s, t, l) == [E EXCEPT ![s][t] = IF includes(@, l) THEN @ ELSE Append(@, l)]
on(E, s, t, l) == [E EXCEPT ![s][t] = Append(@, l)]

CallOn(s, t, l) ==
  /\ Quiet
  /\ Len(emitter[s][t]) < MaxHandlers
  /\ emitter' = on(emitter, s, t, l)
  /\ log' = <<>>
  /\ UNCHANGED <<_aborted, children, heap, collections, abortFn, listenerFn, stack>>

\* one aborter without children whose callbacks just return
InitOn == Setup({[s \in Scopes |-> <<>>]}, {PlainBodies})

NextOn ==
  \/ CallAbort(Root)
  \/ CallCollect(Root, 1)
  \/ \E t \in EventType, l \in Listeners : CallOn(Root, t, l)
  \/ Steps

SpecOn == InitOn /\ [][NextOn]_vars

\* how often x occurs in seq
Occurs(seq, x) == Cardinality({i \in 1..Len(seq) : seq[i] = x})

\* C16: on() adds a listener also when it is in the handler list already, and
\* a pass runs the handler list as it is: a callback added n times for an event
\* runs n times in one pass, at the positions where it was added.
C16_OnStep ==
  \A t \in EventType, l \in Listeners :
    CallOn(Root, t, l) =>
      /\ emitter'[Root][t] = Append(emitter[Root][t], l)
      /\ Occurs(emitter'[Root][t], l) = Occurs(emitter[Root][t], l) + 1
C16_Runs ==
  (Depth = 1 /\ Top.pass /\ Top.pc = "return") =>
    \A t \in EventType :
      /\ Xs(OfKind(Direct(1), {t})) = emitter[Top.s][t]
      /\ \A l \in Listeners :
           Count(Ev(t, Top.s, l, 1), Top.base + 1, Len(log)) = Occurs(emitter[Top.s][t], l)
C16_DupListener == [][C16_OnStep]_vars /\ []C16_Runs

\* listener 1 was added to "abort" a second time, behind listener 2, and the
\* pass has run it first and third
C16_Witness ==
  /\ Depth = 1 /\ Top.pass /\ Top.pc = "return"
  /\ emitter[Top.s]["abort"] = <<1, 2, 1>>
  /\ Xs(OfKind(Direct(1), {"abort"})) = <<1, 2, 1>>
  /\ Occurs(emitter[Top.s]["aborted"], 3) = 2

\* C17: while no abort() is running on an aborter, its _aborted being true
\* implies that its collections are empty, also after callbacks of its
\* children or its own "aborted" listeners collected on it during a pass.
C17_NoneLeft ==
  \A s \in Scopes :
    ((\A n \in Frames : stack[n].s # s) /\ _aborted[s]) => collections[s] = <<>>

\* ---- a child that detaches itself during the pass ----
\* Aborter 1 has the children 2 and 3.  The abort() of abortable 2, or the
\* "aborted" listener, calls removeChildAborter(2) on aborter 1; or every
\* callback just returns.
DetachBodies ==
  { PlainBodies, OpBody(2, DoRemoveChild(Root, 2)), ListenerBody(3, DoRemoveChild(Root, 2)) }

InitDetach == Setup({[s \in Scopes |-> IF s = 1 THEN <<2, 3>> ELSE <<>>]}, DetachBodies)

NextDetach ==
  \/ \E s \in Scopes : CallAbort(s)
  \/ \E s \in Scopes, o \in Ops : TotalOps(collections) < MaxTreeOps /\ CallCollect(s, o)
  \/ \E c \in 2..3 : CallAddChild(Root, c)
  \/ Steps

SpecDetach == InitDetach /\ [][NextDetach]_vars

\* C18: when the forEach of a pass is over, abort() has been called on every
\* aborter that is in the child array, also when a callback of a child removed
\* that child from the array during the pass: no child that is still in the
\* array was skipped.
C18_NoSkip ==
  \A n \in Frames :
    LET f == stack[n] IN
    (f.pass /\ f.pc \in {"aborted", "return"}) =>
      \A c \in Range(kids(Mem, f.s)) :
        \E j \in Seg(n) : log[j].e = "call" /\ log[j].s = c /\ log[j].d = n + 1

\* ---- child arrays with cycles ----
\* Child relations built with options.children and addChildAborter: an aborter
\* that is its own child, two aborters that are each other's child, a cycle
\* behind or before a child without children, and relations without a cycle,
\* to which addChildAborter then adds aborter 1 as its own child.
CycleConfigs ==
  { [s \in Scopes |-> IF s = 1 THEN <<1>> ELSE <<>>],
    [s \in Scopes |-> IF s = 1 THEN <<2>> ELSE <<>>],
    [s \in Scopes |-> IF s = 1 THEN <<1, 1>> ELSE <<>>],
    [s \in Scopes |-> IF s = 1 THEN <<2>> ELSE IF s = 2 THEN <<1>> ELSE <<>>],
    [s \in Scopes |-> IF s = 1 THEN <<2, 1>> ELSE <<>>],
    [s \in Scopes |-> IF s = 1 THEN <<1, 2>> ELSE <<>>],
    [s \in Scopes |-> IF s = 1 THEN <<2, 2>> ELSE IF s = 2 THEN <<3>> ELSE <<>>],
    [s \in Scopes |-> IF s = 1 THEN <<2, 3>> ELSE <<>>] }

InitCycle == Setup(CycleConfigs, {PlainBodies})

NextCycle ==
  \/ Caught
  \/ \E s \in 1..2 : CallAbort(s) /\ (IF log = <<>> THEN TRUE ELSE log[Len(log)].e = "rearm")
  \/ \E s \in 1..2 : TotalOps(collections) < MaxTreeOps /\ CallCollect(s, 1)
  \/ CallAddChild(Root, Root)
  \/ Steps

\* abort() runs to completion once it is called: JavaScript runs it without
\* interruption
SpecCycle == InitCycle /\ [][NextCycle]_vars /\ WF_vars(Steps)

\* C19: a call of abort() comes to an end, by returning or by throwing, for
\* every child relation, cyclic ones included, when every callback returns and
\* none calls collect().
C19_Terminates == (~Quiet) ~> Quiet

\* abort() on an aborter that is its own child has ended with a RangeError
\* thrown from the deepest call the stack holds
C19_Witness ==
  /\ Quiet /\ log # <<>>
  /\ log[Len(log)].e = "RangeError" /\ log[Len(log)].d = StackLimit
  /\ includes(kids(Mem, 1), 1)
  /\ collections[1] = <<>> /\ ~_aborted[1]
  /\ \E j \in 1..Len(log) : log[j].e = "op"

\* the log never fills up while abort() runs on these child relations
CycleRoom == ~Quiet => Room

\* ---- a child that is reached twice ----
\* Aborter 2 is in the child array of aborter 1 twice; or aborter 3 is a child
\* of aborter 1 and of aborter 2, which is a child of aborter 1 too, before or
\* behind aborter 3.  Every callback just returns.
TwiceConfigs ==
  { [s \in Scopes |-> IF s = 1 THEN <<2, 2>> ELSE <<>>],
    [s \in Scopes |-> IF s = 1 THEN <<2, 3>> ELSE IF s = 2 THEN <<3>> ELSE <<>>],
    [s \in Scopes |-> IF s = 1 THEN <<3, 2>> ELSE IF s = 2 THEN <<3>> ELSE <<>>] }

InitTwice == Setup(TwiceConfigs, {PlainBodies})

NextTwice ==
  \/ \E s \in Scopes : CallAbort(s)
  \/ \E s \in Scopes, o \in Ops : TotalOps(collections) < MaxTreeOps /\ CallCollect(s, o)
  \/ Steps

SpecTwice == InitTwice /\ [][NextTwice]_vars

\* the events of the current top-level call that satisfy e, s, x, at any depth
Events(e, s, x) ==
  {j \in 1..Len(log) : log[j].e = e /\ log[j].s = s /\ log[j].x = x /\ log[j].d >= 1}

\* C20: when a top-level abort() is about to return, abort() was called on a
\* child once for every place it has in the child arrays of the aborters that
\* ran a pass, but at most one of these calls ran a pass, the first, and the
\* later ones returned at the guard: every abortable collected on the child was
\* called exactly once and every listener of the child ran exactly once.
C20_Once ==
  (Depth = 1 /\ Top.pass /\ Top.pc = "return") =>
    \A c \in Desc(Top.s) \ {Top.s} :
      LET passes == Events("call", c, 1)
          noops == Events("call", c, 0)
      IN  /\ Cardinality(passes) <= 1
          /\ \A j \in passes, k \in noops : j < k
          /\ Top.coll0[c] # <<>> => Cardinality(passes) = 1
          /\ \A o \in Ops :
               Cardinality(Events("op", c, o)) = IF includes(Top.coll0[c], o) THEN 1 ELSE 0
          /\ \A t \in EventType, l \in Listeners :
               Cardinality(Events(t, c, l)) = Cardinality(passes) * Occurs(emitter[c][t], l)
          /\ Cardinality(passes \cup noops) =
               Cardinality({pi \in Scopes \X (1..MaxKids) :
                              /\ Events("call", pi[1], 1) # {}
                              /\ pi[2] <= Len(kids(Mem, pi[1]))
                              /\ kids(Mem, pi[1])[pi[2]] = c})

\* aborter 2, twice in the child array of aborter 1, with an abortable: the
\* second call of its abort() returned at the guard
C20_Witness ==
  /\ Depth = 1 /\ Top.pass /\ Top.pc = "return" /\ Top.s = 1
  /\ kids(Mem, 1) = <<2, 2>>
  /\ Top.coll0[2] # <<>>
  /\ Cardinality(Events("call", 2, 1)) = 1
  /\ Cardinality(Events("call", 2, 0)) = 1
  /\ \A o \in Range(Top.coll0[2]) : Cardinality(Events("op", 2, o)) = 1

\* ---- what is read during a pass ----
\* Trees of aborters whose callbacks all just return.
InitPlain == Setup(ConfigChildren, {PlainBodies})

SpecPlain == InitPlain /\ [][NextTwice]_vars

\* C21 (amended): while the "abort" listeners of S run, aborted reads false on
\* S and no abortable of S has been called; it still reads false during the
\* loop; no step before line 116 changes _aborted of S, so during forEach
\* aborted reads true on S only if _aborted was left set by an earlier pass and
\* every child reads aborted by now; while the "aborted" listeners of S run,
\* _aborted is set, collections is empty, abort() has returned on every child
\* and aborted reads true on S.
C21_State ==
  \A n \in Frames :
    LET f == stack[n]
        s == f.s
    IN  f.pass =>
          /\ f.pc = "abort" =>
               /\ opsDone(n) = <<>>
               /\ collections[s] = f.coll0[s]
          /\ f.pc \in {"abort", "drain"} => ~isCanceled(s)
          /\ (f.pc = "children" /\ isCanceled(s)) =>
               /\ _aborted[s] /\ f.coll0[s] = <<>>
               /\ \A i \in 1..Len(kids(Mem, s)) : isCanceled(kids(Mem, s)[i])
          /\ f.pc = "aborted" =>
               /\ _aborted[s]
               /\ collections[s] = <<>>
               /\ Ss(OfKind(Direct(n), {"ret"})) = kids(Mem, s)
               /\ isCanceled(s)
C21_FlagStep ==
  \A n \in Frames :
    ( /\ stack[n].pass /\ stack[n].pc \in {"abort", "drain", "children"}
      /\ Len(stack') >= n
      /\ stack'[n].pc \in {"abort", "drain", "children"} )
    => _aborted'[stack[n].s] = _aborted[stack[n].s]
C21_Observed == [][C21_FlagStep]_vars /\ []C21_State

\* the "aborted" listener of a child is about to run during the forEach of its
\* parent, whose _aborted is still set from an earlier pass: the parent reads
\* aborted already
C21_Witness ==
  /\ Depth = 2 /\ Top.pass /\ Top.pc = "aborted" /\ Top.i = 1
  /\ stack[1].pass /\ stack[1].pc = "children"
  /\ Len(kids(Mem, stack[1].s)) = 2
  /\ Top.coll0[Top.s] # <<>>
  /\ isCanceled(stack[1].s)

\* C21: from the "abort" event until line 116, aborted reads false on the
\* aborter that runs the pass, whatever its children read.
C21_FalseUntilStep5 ==
  \A n \in Frames :
    (stack[n].pass /\ stack[n].pc \in {"abort", "drain", "children"})
      => ~isCanceled(stack[n].s)

\* ---- removing listeners ----
\* lines 136-138: off(event, listener) hands the listener to the emitter, which
\* removes its first identity match from the handler list of the event, or
\* nothing when it is not in the list
offEvery(E, s, t, l) == [E EXCEPT ![s][t] = SelectSeq(@, LAMBDA h : h # l)]
off(E, s, t, l) ==
  [E EXCEPT ![s][t] =
     IF includes(@, l)
       THEN SubSeq(@, 1, indexOf(@, l)) \o SubSeq(@, indexOf(@, l) + 2, Len(@))
       ELSE @]

\* off() called from outside, the call recorded until the next abort() returns
CallOff(s, t, l) ==
  /\ Quiet
  /\ emitter' = off(emitter, s, t, l)
  /\ log' = <<Ev("off", s, l, 0)>>
  /\ UNCHANGED <<_aborted, children, heap, collections, abortFn, listenerFn, stack>>

\* one aborter without children whose callbacks just return; the listeners 1
\* and 2 are added and removed
NextOff ==
  \/ CallAbort(Root)
  \/ CallCollect(Root, 1)
  \/ \E t \in EventType, l \in 1..2 : CallOn(Root, t, l)
  \/ \E t \in EventType, l \in 1..2 : CallOff(Root, t, l)
  \/ Steps

SpecOff == InitOn /\ [][NextOff]_vars

\* C22: off(kind, callback) removes the first identity match of the callback
\* from the handler list of that kind and nothing else, from neither list; with
\* a callback that is not in the list it changes nothing and throws nothing.
\* The pass that follows runs the callback once for every place it still has:
\* once, when it was added twice and removed once.
C22_OffStep ==
  \A t \in EventType, l \in Listeners :
    CallOff(Root, t, l) =>
      LET old == emitter[Root][t]
          new == emitter'[Root][t]
      IN  /\ stack' = <<>>
          /\ \A u \in EventType \ {t} : emitter'[Root][u] = emitter[Root][u]
          /\ \A s \in Scopes \ {Root} : emitter'[s] = emitter[s]
          /\ ~includes(old, l) => new = old
          /\ includes(old, l) =>
               \E i \in 1..Len(old) :
                 /\ old[i] = l /\ \A j \in 1..(i - 1) : old[j] # l
                 /\ Len(new) = Len(old) - 1
                 /\ \A j \in 1..Len(new) : new[j] = IF j < i THEN old[j] ELSE old[j + 1]
C22_Next ==
  \A l \in Listeners :
    ( /\ Depth = 1 /\ Top.pass /\ Top.pc = "return"
      /\ log[1] = Ev("off", Top.s, l, 0) ) =>
      \A t \in EventType :
        /\ Cardinality(Events(t, Top.s, l)) = Occurs(emitter[Top.s][t], l)
        /\ Xs(OfKind(Direct(1), {t})) = emitter[Top.s][t]
C22_RemoveListener == [][C22_OffStep]_vars /\ []C22_Next

\* listener 1, added to "abort" a second time behind listener 2 and removed
\* once, has run once, behind listener 2
C22_Witness ==
  /\ Depth = 1 /\ Top.pass /\ Top.pc = "return"
  /\ log[1] = Ev("off", Top.s, 1, 0)
  /\ emitter[Top.s]["abort"] = <<2, 1>>
  /\ Xs(OfKind(Direct(1), {"abort"})) = <<2, 1>>
  /\ Cardinality(Events("abort", Top.s, 1)) = 1

====
